---- MODULE Spec2Model ----
(***************************************************************************)
(* A model of length_match.py, the KiCad length matching checker.          *)
(*                                                                         *)
(* Strings are sequences of one-character strings, so that the regular     *)
(* expression of get_tolerance and Python's string ordering can be         *)
(* computed character by character.  Lengths are integers in nanometres.   *)
(* The script is Python 2: len(x)/2 is integer division and /2.0 is float  *)
(* division.  A float with a possible half is held as twice its value.     *)
(***************************************************************************)
EXTENDS Integers, Sequences, FiniteSets, TLC

\* ------------------------------------------------------------------ bounds

\* The most track segments a board holds.
MaxTracks == 2
\* The most saves of the board file the designer makes during a run.
MaxSaves == 2
\* The most nets of a group handed to test_netclass on its own.
MaxNets == 3

\* ------------------------------------------------------------ Python values

\* ord() of the characters that occur in net names.
ord(c) ==
    CASE c = "A" -> 65
      [] c = "B" -> 66
      [] c = "C" -> 67
      [] c = "D" -> 68

\* Python's < on two strings: lexicographic by code point, a proper prefix first.
RECURSIVE StrLess(_, _)
StrLess(a, b) ==
    IF b = <<>> THEN FALSE
    ELSE IF a = <<>> THEN TRUE
    ELSE IF ord(Head(a)) # ord(Head(b)) THEN ord(Head(a)) < ord(Head(b))
    ELSE StrLess(Tail(a), Tail(b))

\* Python's < on two (netname, length) tuples: by name, then by length.
NetLess(p, q) ==
    \/ StrLess(p[1], q[1])
    \/ p[1] = q[1] /\ p[2] < q[2]

\* list.sort() / sorted() of a list of strings: ascending, insertion by insertion.
RECURSIVE InsertStr(_, _)
InsertStr(x, s) ==
    IF s = <<>> THEN <<x>>
    ELSE IF StrLess(Head(s), x) THEN <<Head(s)>> \o InsertStr(x, Tail(s))
    ELSE <<x>> \o s

RECURSIVE SortStrs(_)
SortStrs(s) == IF s = <<>> THEN <<>> ELSE InsertStr(Head(s), SortStrs(Tail(s)))

\* list.sort() of a list of (netname, length) tuples.
RECURSIVE InsertNet(_, _)
InsertNet(x, s) ==
    IF s = <<>> THEN <<x>>
    ELSE IF NetLess(Head(s), x) THEN <<Head(s)>> \o InsertNet(x, Tail(s))
    ELSE <<x>> \o s

RECURSIVE SortNets(_)
SortNets(s) == IF s = <<>> THEN <<>> ELSE InsertNet(Head(s), SortNets(Tail(s)))

\* sorted() of a list of integers.
RECURSIVE InsertInt(_, _)
InsertInt(x, s) ==
    IF s = <<>> THEN <<x>>
    ELSE IF Head(s) < x THEN <<Head(s)>> \o InsertInt(x, Tail(s))
    ELSE <<x>> \o s

RECURSIVE SortInts(_)
SortInts(s) == IF s = <<>> THEN <<>> ELSE InsertInt(Head(s), SortInts(Tail(s)))

\* list(set(...)): the distinct elements of a list, in some order.
RECURSIVE SetToSeq(_)
SetToSeq(S) ==
    IF S = {} THEN <<>>
    ELSE LET x == CHOOSE y \in S : TRUE IN <<x>> \o SetToSeq(S \ {x})

\* sum() of a list of integers.
RECURSIVE SumSeq(_)
SumSeq(s) == IF s = <<>> THEN 0 ELSE Head(s) + SumSeq(Tail(s))

\* min() and max() of a non-empty list of integers, left to right.
RECURSIVE MinSeq(_)
MinSeq(s) ==
    IF Len(s) = 1 THEN s[1]
    ELSE LET m == MinSeq(Tail(s)) IN IF m < Head(s) THEN m ELSE Head(s)

RECURSIVE MaxSeq(_)
MaxSeq(s) ==
    IF Len(s) = 1 THEN s[1]
    ELSE LET m == MaxSeq(Tail(s)) IN IF m > Head(s) THEN m ELSE Head(s)

RECURSIVE Pow10(_)
Pow10(n) == IF n = 0 THEN 1 ELSE 10 * Pow10(n - 1)

\* -------------------------------------------------------- tolerance parser

Digits == {"0", "1", "2", "3", "4", "5", "6", "7", "8", "9"}

\* The character class [0-9\.] of the regular expression.
NumChars == Digits \cup {"."}

DigitVal(c) ==
    CASE c = "0" -> 0 [] c = "1" -> 1 [] c = "2" -> 2 [] c = "3" -> 3
      [] c = "4" -> 4 [] c = "5" -> 5 [] c = "6" -> 6 [] c = "7" -> 7
      [] c = "8" -> 8 [] c = "9" -> 9

\* The last index of the longest run of [0-9\.] that starts at index k
\* (k - 1 when there is none): the greedy [0-9\.]+ .
RECURSIVE RunEnd(_, _)
RunEnd(s, k) ==
    IF k <= Len(s) /\ s[k] \in NumChars THEN RunEnd(s, k + 1) ELSE k - 1

\* (^|_)LM([0-9\.]+)($|_) matches with its "L" at index j.
MatchAt(s, j) ==
    /\ j = 1 \/ s[j - 1] = "_"
    /\ j + 2 <= Len(s)
    /\ s[j] = "L"
    /\ s[j + 1] = "M"
    /\ RunEnd(s, j + 2) >= j + 2
    /\ RunEnd(s, j + 2) = Len(s) \/ s[RunEnd(s, j + 2) + 1] = "_"

\* re.search: the leftmost match; group(2) is the numeral, None when no match.
re_search(s) ==
    LET js == {j \in 1..Len(s) : MatchAt(s, j)}
    IN  IF js = {} THEN [kind |-> "None", group2 |-> <<>>]
        ELSE LET j == CHOOSE x \in js : \A y \in js : x <= y
             IN  [kind |-> "match", group2 |-> SubSeq(s, j + 2, RunEnd(s, j + 2))]

\* The digits of a numeral, its periods dropped, as an integer.
RECURSIVE DigitsValue(_)
DigitsValue(s) ==
    IF s = <<>> THEN 0
    ELSE IF s[Len(s)] = "." THEN DigitsValue(SubSeq(s, 1, Len(s) - 1))
    ELSE 10 * DigitsValue(SubSeq(s, 1, Len(s) - 1)) + DigitVal(s[Len(s)])

\* The number of characters after the period of a numeral (0 without one).
FracLen(s) ==
    IF \E i \in 1..Len(s) : s[i] = "."
    THEN Len(s) - (CHOOSE i \in 1..Len(s) : s[i] = ".")
    ELSE 0

\* float(s) of a string of digits and periods: ValueError unless it has at
\* least one digit and at most one period; else the decimal mant / 10^exp.
float(s) ==
    IF \/ Cardinality({i \in 1..Len(s) : s[i] = "."}) > 1
       \/ {i \in 1..Len(s) : s[i] \in Digits} = {}
    THEN [kind |-> "ValueError", mant |-> 0, exp |-> 0]
    ELSE [kind |-> "ok", mant |-> DigitsValue(s), exp |-> FracLen(s)]

\* int(mm * 1e6): the decimal times 10^6, truncated towards zero.  Python's
\* binary float gives the same integer for the numerals of the labels used
\* here (it can be one less for others, such as 1.001).
mm_to_nm(mm) == (mm.mant * Pow10(6)) \div Pow10(mm.exp)

\* get_tolerance, had it caught the ValueError and returned None.
get_tolerance_SkipMalformed(classname) ==
    LET name == re_search(classname)
    IN  IF name.kind = "None" \/ float(name.group2).kind = "ValueError"
        THEN [kind |-> "None", nm |-> 0]
        ELSE [kind |-> "ok", nm |-> mm_to_nm(float(name.group2))]

\* None, a tolerance in nanometres, or the ValueError float() raises.
get_tolerance(classname) ==
    LET name == re_search(classname)
    IN  IF name.kind = "None" THEN [kind |-> "None", nm |-> 0]
        ELSE LET f == float(name.group2)
             IN  IF f.kind = "ValueError" THEN [kind |-> "ValueError", nm |-> 0]
                 ELSE [kind |-> "ok", nm |-> mm_to_nm(f)]

\* ------------------------------------------------------------------ matcher

\* median, had it taken the upper central element for an even count.
median_UpperMiddle(x) == 2 * SortInts(x)[(Len(x) \div 2) + 1]

\* The median of a non-empty list, as twice its value (the even case is a
\* float with a possible half).
median(x) ==
    IF Len(x) % 2 # 0
    THEN 2 * SortInts(x)[(Len(x) \div 2) + 1]
    ELSE SortInts(x)[(Len(x) \div 2) + 1] + SortInts(x)[Len(x) \div 2]

\* test_netclass, had it compared with <= .
test_netclass_NonStrict(netclass, tolerance, nets) ==
    IF nets = <<>>
    THEN [raised |-> "ValueError", meets |-> FALSE, delta |-> 0, medlen |-> 0,
          nets |-> <<>>, lines |-> <<>>]
    ELSE
    LET sorted == SortNets(nets)
        lens   == [i \in 1..Len(sorted) |-> sorted[i][2]]
        delta  == MaxSeq(lens) - MinSeq(lens)
        medlen == median(lens)
    IN  [raised |-> "",
         meets  |-> delta <= tolerance,
         delta  |-> delta,
         medlen |-> medlen,
         nets   |-> sorted,
         lines  |-> [i \in 1..Len(sorted) |->
                       [net  |-> sorted[i][1],
                        plus |-> 2 * sorted[i][2] > medlen,
                        dev  |-> 2 * sorted[i][2] - medlen]]]

\* What test_netclass computes and prints: the verdict it returns, the
\* variance, the median (doubled), the list as nets.sort() leaves it, and per
\* net the sign column and the deviation from the median (doubled).  On an
\* empty list min() raises ValueError before anything is printed.
test_netclass(netclass, tolerance, nets) ==
    IF nets = <<>>
    THEN [raised |-> "ValueError", meets |-> FALSE, delta |-> 0, medlen |-> 0,
          nets |-> <<>>, lines |-> <<>>]
    ELSE
    LET sorted == SortNets(nets)
        lens   == [i \in 1..Len(sorted) |-> sorted[i][2]]
        minlen == MinSeq(lens)
        maxlen == MaxSeq(lens)
        delta  == maxlen - minlen
        medlen == median(lens)
    IN  [raised |-> "",
         meets  |-> delta < tolerance,
         delta  |-> delta,
         medlen |-> medlen,
         nets   |-> sorted,
         lines  |-> [i \in 1..Len(sorted) |->
                       [net  |-> sorted[i][1],
                        plus |-> 2 * sorted[i][2] > medlen,
                        dev  |-> 2 * sorted[i][2] - medlen]]]

\* --------------------------------------------------------------- the board

\* Net names, group labels (netclass names) and segment lengths of the boards
\* the designer draws.
NetNames == {<<"A", "B">>, <<"B">>}

CLK_LM01 == <<"C", "L", "K", "_", "L", "M", "0", ".", "1">>
LM0 == <<"L", "M", "0">>
MISC == <<"M", "I", "S", "C">>
LM123 == <<"L", "M", "1", ".", "2", ".", "3">>

ClassNames == {CLK_LM01, LM0, MISC, LM123}

Lengths == {100000}

\* A track segment: its net's name, its net's class name, its length.
Tracks == [net : NetNames, class : ClassNames, length : Lengths]

\* The kinds of segment, numbered.
Kinds == SetToSeq(Tracks)

\* The number of segments of a board.
RECURSIVE CountIn(_, _)
CountIn(b, ks) ==
    IF ks = {} THEN 0
    ELSE LET k == CHOOSE x \in ks : TRUE IN b[k] + CountIn(b, ks \ {k})

BoardSize(b) == CountIn(b, DOMAIN Kinds)

\* A board: how many segments of each kind (by its number) it holds.
Boards == {b \in [DOMAIN Kinds -> 0..MaxTracks] : BoardSize(b) <= MaxTracks}

\* pcb.GetTracks(): the segments of the board as a list.
RECURSIVE Repeat(_, _)
Repeat(x, n) == IF n = 0 THEN <<>> ELSE <<x>> \o Repeat(x, n - 1)

RECURSIVE TrackList(_, _)
TrackList(pcb, k) ==
    IF k > Len(Kinds) THEN <<>>
    ELSE Repeat(Kinds[k], pcb[k]) \o TrackList(pcb, k + 1)

GetTracks(pcb) == TrackList(pcb, 1)

\* -------------------------------------------------------------- aggregator

\* NetsOf, had it summed a net's tracks of every netclass.
NetsOf_AllClasses(tracks, netclass) ==
    LET InClass(t) == t.class = netclass
        tracks_netclass == SelectSeq(tracks, InClass)
        netnames == SortStrs(SetToSeq({tracks_netclass[i].net :
                                         i \in 1..Len(tracks_netclass)}))
    IN  [k \in 1..Len(netnames) |->
            LET OfNet(t) == t.net = netnames[k]
                mine == SelectSeq(tracks, OfNet)
            IN  <<netnames[k], SumSeq([i \in 1..Len(mine) |-> mine[i].length])>>]

\* NetsOf, had it lost the first net name (netnames[1:]).
NetsOf_DropFirst(tracks, netclass) ==
    LET InClass(t) == t.class = netclass
        tracks_netclass == SelectSeq(tracks, InClass)
        netnames == Tail(SortStrs(SetToSeq({tracks_netclass[i].net :
                                              i \in 1..Len(tracks_netclass)})))
    IN  [k \in 1..Len(netnames) |->
            LET OfNet(t) == t.net = netnames[k]
                mine == SelectSeq(tracks_netclass, OfNet)
            IN  <<netnames[k], SumSeq([i \in 1..Len(mine) |-> mine[i].length])>>]

\* The (netname, length) list of one netclass: its net names, unique and
\* sorted, each with the sum of the lengths of its tracks.
NetsOf(tracks, netclass) ==
    LET InClass(t) == t.class = netclass
        tracks_netclass == SelectSeq(tracks, InClass)
        netnames == SortStrs(SetToSeq({tracks_netclass[i].net :
                                         i \in 1..Len(tracks_netclass)}))
    IN  [k \in 1..Len(netnames) |->
            LET OfNet(t) == t.net = netnames[k]
                mine == SelectSeq(tracks_netclass, OfNet)
            IN  <<netnames[k], SumSeq([i \in 1..Len(mine) |-> mine[i].length])>>]

\* The dict netclass -> (tolerance, nets), or the ValueError of get_tolerance.
get_board_properties(pcb) ==
    LET tracks == GetTracks(pcb)
        netclasses == {tracks[i].class : i \in 1..Len(tracks)}
        tolerances == [c \in netclasses |-> get_tolerance(c)]
    IN  IF \E c \in netclasses : tolerances[c].kind = "ValueError"
        THEN [kind |-> "ValueError", result |-> <<>>]
        ELSE [kind |-> "ok",
              result |-> [c \in {x \in netclasses : tolerances[x].kind = "ok"} |->
                            <<tolerances[c].nm, NetsOf(tracks, c)>>]]

\* ------------------------------------------------------------------- state

VARIABLES
    once,         \* "--once" in sys.argv
    pc,           \* where the main loop is: "getmtime", "wait", "exited", "crashed"
    first,        \* first
    lastmtime,    \* lastmtime
    mtime,        \* mtime
    oldprops,     \* oldprops
    allmatches,   \* allmatches of the last pass
    exitstatus,   \* the status sys.exit gave (-1 while running)
    error,        \* the exception that ended the process ("" when none)
    tested,       \* the last pass's calls of test_netclass: netclass -> result
    board,        \* the content of the board file
    exists,       \* whether the board file exists (a save deletes it for a moment)
    fileMtime,    \* the board file's modification time
    saves,        \* the saves made so far
    lastComputed, \* history: the mapping the last completed pass computed
    loadedBoard,  \* history: the board the last pass loaded
    loadedMtime,  \* history: the modification time of the content last loaded
    vanished,     \* history: the groups of the snapshot the last pass found gone
    mpc,          \* the matcher on its own: "idle", "parse", "test", "done", ...
    classname,    \* the matcher on its own: the group label
    tolerance,    \* the matcher on its own: the tolerance parsed from the label
    nets,         \* the matcher on its own: the (netname, length) list
    result        \* the matcher on its own: what test_netclass gave

fileVars == <<board, exists, fileMtime, saves>>

progVars == <<once, pc, first, lastmtime, mtime, oldprops, allmatches,
              exitstatus, error, tested, lastComputed, loadedBoard, loadedMtime,
              vanished>>

matcherVars == <<mpc, classname, tolerance, nets, result>>

vars == <<progVars, fileVars, matcherVars>>

EmptyBoard == [k \in DOMAIN Kinds |-> 0]

NoResult == test_netclass(<<>>, 0, <<>>)

\* The matcher's variables while the main loop is what runs.
MatcherIdle ==
    /\ mpc = "idle"
    /\ classname = <<>>
    /\ tolerance = 0
    /\ nets = <<>>
    /\ result = NoResult

\* The program started on a board file that exists, with or without --once.
Init ==
    /\ once \in BOOLEAN
    /\ pc = "getmtime"
    /\ first = TRUE
    /\ lastmtime = 0
    /\ mtime = 0
    /\ oldprops = <<>>
    /\ allmatches = TRUE
    /\ exitstatus = -1
    /\ error = ""
    /\ tested = <<>>
    /\ board \in Boards
    /\ exists = TRUE
    /\ fileMtime = 0
    /\ saves = 0
    /\ lastComputed = <<>>
    /\ loadedBoard = EmptyBoard
    /\ loadedMtime = -1
    /\ vanished = {}
    /\ MatcherIdle

\* ------------------------------------------------------------ the designer

\* The boards one edit away: a segment added, a segment removed, or no change.
Edits(b) ==
    {b}
    \cup {[b EXCEPT ![k] = @ + 1] :
             k \in IF BoardSize(b) < MaxTracks THEN DOMAIN Kinds ELSE {}}
    \cup {[b EXCEPT ![k] = @ - 1] : k \in {x \in DOMAIN Kinds : b[x] > 0}}

Running == pc \in {"getmtime", "wait"}

\* The editor starts a save: the file is gone for a moment.
SaveBegin ==
    /\ Running
    /\ exists
    /\ saves < MaxSaves
    /\ exists' = FALSE
    /\ saves' = saves + 1
    /\ UNCHANGED <<board, fileMtime>>
    /\ UNCHANGED <<progVars, matcherVars>>

\* The editor finishes the save: the file is back, with a new timestamp.
SaveEnd ==
    /\ ~exists
    /\ \E b \in Edits(board) : board' = b
    /\ exists' = TRUE
    /\ fileMtime' = fileMtime + 1
    /\ UNCHANGED saves
    /\ UNCHANGED <<progVars, matcherVars>>

\* --------------------------------------------------------------- main loop

\* lastmtime = os.path.getmtime(filepath); mtime = lastmtime
GetMtime ==
    /\ pc = "getmtime"
    /\ \/ /\ exists
          /\ lastmtime' = fileMtime
          /\ mtime' = fileMtime
          /\ pc' = "wait"
          /\ UNCHANGED error
       \/ /\ ~exists
          /\ pc' = "crashed"
          /\ error' = "OSError"
          /\ UNCHANGED <<lastmtime, mtime>>
    /\ UNCHANGED <<once, first, oldprops, allmatches, exitstatus, tested,
                   lastComputed, loadedBoard, loadedMtime, vanished>>
    /\ UNCHANGED <<fileVars, matcherVars>>

\* One turn of "while mtime == lastmtime and not first": the read, with its
\* OSError caught, and the sleep.
Poll ==
    /\ pc = "wait"
    /\ mtime = lastmtime /\ ~first
    /\ mtime' = IF exists THEN fileMtime ELSE mtime
    /\ UNCHANGED <<once, pc, first, lastmtime, oldprops, allmatches, exitstatus,
                   error, tested, lastComputed, loadedBoard, loadedMtime,
                   vanished>>
    /\ UNCHANGED <<fileVars, matcherVars>>

\* Retest, had it looked only at whether the netclass was known.
Retest_KeyOnly(old, netclass, entry) == netclass \notin DOMAIN old

\* The test of the for loop: whether netclass is passed to test_netclass.
Retest(old, netclass, entry) ==
    ~(netclass \in DOMAIN old /\ old[netclass] = entry)

\* allmatches after the for loop: each "test_netclass(...) and allmatches".
AllMatches(res) == \A g \in DOMAIN res : res[g].meets

\* ExitStatus, had it been sys.exit(allmatches).
ExitStatus_Inverted(matches) == IF matches THEN 1 ELSE 0

\* The exit status of sys.exit(not allmatches).
ExitStatus(matches) == IF ~matches THEN 1 ELSE 0

\* The for loop over props.items() and what follows it.
Pass(props) ==
    LET totest == {g \in DOMAIN props : Retest(oldprops, g, props[g])}
        res == [g \in totest |-> test_netclass(g, props[g][1], props[g][2])]
        raised == \E g \in totest : res[g].raised # ""
    IN  /\ tested' = res
        /\ allmatches' = AllMatches(res)
        /\ lastComputed' = props
        /\ loadedBoard' = board
        /\ loadedMtime' = fileMtime
        /\ vanished' = DOMAIN oldprops \ DOMAIN props
        /\ error' = IF raised THEN "ValueError in min()" ELSE ""
        /\ pc' = IF raised THEN "crashed"
                 ELSE IF once THEN "exited" ELSE "getmtime"
        /\ exitstatus' = IF ~raised /\ once
                         THEN ExitStatus(allmatches') ELSE exitstatus
        /\ oldprops' = IF ~raised /\ ~once
                       THEN [g \in DOMAIN props |->
                               IF g \in totest
                               THEN <<props[g][1], res[g].nets>>
                               ELSE props[g]]
                       ELSE oldprops

\* The rest of the loop body, from "first = False" to "oldprops = props".
Evaluate ==
    /\ pc = "wait"
    /\ ~(mtime = lastmtime /\ ~first)
    /\ first' = FALSE
    /\ \/ /\ ~exists
          /\ pc' = "crashed"
          /\ error' = "IOError"
          /\ allmatches' = TRUE
          /\ UNCHANGED <<oldprops, exitstatus, tested, lastComputed, loadedBoard,
                         loadedMtime, vanished>>
       \/ /\ exists
          /\ LET props == get_board_properties(board)
             IN  \/ /\ props.kind = "ValueError"
                    /\ pc' = "crashed"
                    /\ error' = "ValueError"
                    /\ allmatches' = TRUE
                    /\ tested' = <<>>
                    /\ loadedBoard' = board
                    /\ loadedMtime' = fileMtime
                    /\ UNCHANGED <<oldprops, exitstatus, lastComputed, vanished>>
                 \/ /\ props.kind = "ok"
                    /\ Pass(props.result)
    /\ UNCHANGED <<once, lastmtime, mtime>>
    /\ UNCHANGED <<fileVars, matcherVars>>

Next == GetMtime \/ Poll \/ Evaluate \/ SaveBegin \/ SaveEnd

Spec == Init /\ [][Next]_vars

\* ------------------------------------------------- the matcher on its own

DATABUS_LM12 == <<"D", "A", "T", "A", "B", "U", "S", "_", "L", "M", "1", ".", "2">>
X_LM03_Y == <<"X", "_", "L", "M", "0", ".", "3", "_", "Y">>
LM_DOT == <<"L", "M", ".">>
XLM1 == <<"X", "L", "M", "1">>
LM1X == <<"L", "M", "1", "X">>
CLK_LM123_X == <<"C", "L", "K", "_", "L", "M", "1", ".", "2", ".", "3", "_", "X">>

\* The group labels the parser is tried on.
Labels == ClassNames \cup {DATABUS_LM12, X_LM03_Y, LM_DOT, XLM1, LM1X, CLK_LM123_X}

\* The net names and total lengths of the groups the matcher is tried on.
MatcherNames == {<<"A">>, <<"B">>, <<"C">>, <<"D">>}

MatcherLengths == {5000000, 5300000, 9800000, 10000000, 10500000}

\* The non-empty (netname, length) lists of at most MaxNets nets, each net
\* once, in any order.
NetLists ==
    UNION {{l \in [1..n -> MatcherNames \X MatcherLengths] :
              \A i, j \in 1..n : i # j => l[i][1] # l[j][1]} : n \in 1..MaxNets}

\* A group label and the nets of its group, as the aggregator hands them on.
MatcherInit ==
    /\ once = FALSE
    /\ pc = "idle"
    /\ first = TRUE
    /\ lastmtime = 0
    /\ mtime = 0
    /\ oldprops = <<>>
    /\ allmatches = TRUE
    /\ exitstatus = -1
    /\ error = ""
    /\ tested = <<>>
    /\ board = EmptyBoard
    /\ exists = TRUE
    /\ fileMtime = 0
    /\ saves = 0
    /\ lastComputed = <<>>
    /\ loadedBoard = EmptyBoard
    /\ loadedMtime = -1
    /\ vanished = {}
    /\ mpc = "parse"
    /\ classname \in Labels
    /\ tolerance = 0
    /\ nets \in NetLists
    /\ result = NoResult

\* tolerance = get_tolerance(netclass), and the "continue" on None.
ParseLabel ==
    /\ mpc = "parse"
    /\ \/ /\ get_tolerance(classname).kind = "ok"
          /\ tolerance' = get_tolerance(classname).nm
          /\ mpc' = "test"
       \/ /\ get_tolerance(classname).kind = "None"
          /\ mpc' = "skipped"
          /\ UNCHANGED tolerance
       \/ /\ get_tolerance(classname).kind = "ValueError"
          /\ mpc' = "raised"
          /\ UNCHANGED tolerance
    /\ UNCHANGED <<classname, nets, result>>
    /\ UNCHANGED <<progVars, fileVars>>

\* test_netclass(netclass, tolerance, nets)
TestNetclass ==
    /\ mpc = "test"
    /\ result' = test_netclass(classname, tolerance, nets)
    /\ nets' = result'.nets
    /\ mpc' = "done"
    /\ UNCHANGED <<classname, tolerance>>
    /\ UNCHANGED <<progVars, fileVars>>

MatcherNext == ParseLabel \/ TestNetclass

MatcherSpec == MatcherInit /\ [][MatcherNext]_vars

\* ------------------------------------------------------------------ claims

\* What the claims say, stated on the board and the lists themselves.

\* The group labels on the segments of a board, and the nets of one of them.
ClassesOn(b) == {Kinds[k].class : k \in {x \in DOMAIN Kinds : b[x] > 0}}

NetsOn(b, c) ==
    {Kinds[k].net : k \in {x \in DOMAIN Kinds : b[x] > 0 /\ Kinds[x].class = c}}

\* The total length of the segments of a set of kinds (by their numbers).
RECURSIVE LengthIn(_, _)
LengthIn(b, ks) ==
    IF ks = {} THEN 0
    ELSE LET k == CHOOSE x \in ks : TRUE
         IN  b[k] * Kinds[k].length + LengthIn(b, ks \ {k})

TotalLength(b, c, n) ==
    LengthIn(b, {k \in DOMAIN Kinds : Kinds[k].class = c /\ Kinds[k].net = n})

\* Every two lengths of the list differ by less than the tolerance.
WithinTolerance(tol, ns) ==
    \A i, j \in 1..Len(ns) : ns[i][2] - ns[j][2] < tol

\* The k-th smallest length of a list: fewer than k lengths are below it and
\* at least k are not above it.
KthSmallest(ns, k) ==
    CHOOSE v \in {ns[i][2] : i \in 1..Len(ns)} :
        /\ Cardinality({i \in 1..Len(ns) : ns[i][2] < v}) < k
        /\ Cardinality({i \in 1..Len(ns) : ns[i][2] <= v}) >= k

\* The groups of a mapping that differ from, or are not in, another mapping.
ChangedGroups(new, old) ==
    {g \in DOMAIN new : g \notin DOMAIN old \/ old[g] # new[g]}

\* C1: in continuous mode each Evaluate pass that computes its mapping calls
\* test_netclass for exactly the groups whose entry differs from, or is absent
\* in, the mapping the pass before computed (none before the first pass); so
\* an equal mapping gives no output and the first pass reports every group.
C1_ChangeDriven ==
    [][(~once /\ pc = "wait" /\ pc' = "getmtime")
         => /\ DOMAIN tested' = ChangedGroups(lastComputed', lastComputed)
            /\ (lastComputed' = lastComputed => tested' = <<>>)
            /\ (first => DOMAIN tested' = DOMAIN lastComputed')]_vars

\* A second or later pass has tested one group and left another one alone.
C1_Witness ==
    /\ ~once
    /\ pc = "getmtime"
    /\ loadedMtime >= 1
    /\ Cardinality(DOMAIN lastComputed) = 2
    /\ Cardinality(DOMAIN tested) = 1

\* C2: no save is missed for good.  Stated on the state the tool then rests
\* in: whenever it waits and the file's timestamp is the one it compares with
\* (so that only a further save makes it evaluate again), the content it last
\* loaded is the file's current content.
C2_NoSaveMissed ==
    (~once /\ pc = "wait" /\ ~first /\ exists
       /\ mtime = lastmtime /\ lastmtime = fileMtime)
    => loadedMtime = fileMtime

\* C3: with --once the wait is skipped, the one pass hands every recognised
\* group to test_netclass, failing or not, and the program then exits, with
\* status 0 exactly when every group is within its tolerance, 1 otherwise.
C3_OneShot ==
    once =>
      /\ pc = "wait" => ~(mtime = lastmtime /\ ~first)
      /\ ~first => pc \in {"exited", "crashed"}
      /\ pc = "exited" =>
            /\ DOMAIN tested = DOMAIN lastComputed
            /\ exitstatus \in {0, 1}
            /\ exitstatus = 0 <=>
                 \A g \in DOMAIN lastComputed :
                    WithinTolerance(lastComputed[g][1], lastComputed[g][2])

\* A one-shot run has exited nonzero with a failing and a passing group tested.
C3_Witness ==
    /\ once
    /\ pc = "exited"
    /\ exitstatus = 1
    /\ \E g, h \in DOMAIN tested : tested[g].meets /\ ~tested[h].meets

\* C4: in continuous mode no read of the file's modification time that fails
\* ends the process: the OSError of os.path.getmtime never escapes.
C4_TimestampReadNeverFatal == ~once => error # "OSError"

\* C5: a group of a single net has variance 0 and meets its tolerance,
\* whatever tolerance the parser gave (0 included).
C5_SingleNetMeets ==
    (mpc = "done" /\ Len(nets) = 1) => (result.delta = 0 /\ result.meets)

C7_Aggregation ==
    error # "ValueError" =>
      /\ DOMAIN lastComputed =
           {c \in ClassesOn(loadedBoard) : get_tolerance(c).kind = "ok"}
      /\ MISC \notin DOMAIN lastComputed
      /\ \A c \in DOMAIN lastComputed :
           LET ns == lastComputed[c][2]
           IN  /\ lastComputed[c][1] = get_tolerance(c).nm
               /\ {ns[i][1] : i \in 1..Len(ns)} = NetsOn(loadedBoard, c)
               /\ \A i, j \in 1..Len(ns) : i < j => StrLess(ns[i][1], ns[j][1])
               /\ \A i \in 1..Len(ns) :
                    ns[i][2] = TotalLength(loadedBoard, c, ns[i][1])

\* A group of two nets has been aggregated.
C7_Witness ==
    /\ error = ""
    /\ \E c \in DOMAIN lastComputed : Len(lastComputed[c][2]) = 2

\* C8: the median is the middle sorted length for an odd count and the mean of
\* the two central sorted lengths for an even count (twice the median is their
\* sum), and each net is reported with its signed deviation length - median.
C8_Median ==
    mpc = "done" =>
      LET n == Len(nets)
      IN  /\ n % 2 = 1 => result.medlen = 2 * KthSmallest(nets, (n + 1) \div 2)
          /\ n % 2 = 0 => result.medlen = KthSmallest(nets, n \div 2)
                                          + KthSmallest(nets, (n \div 2) + 1)
          /\ Len(result.lines) = n
          /\ \A i \in 1..n :
               /\ result.lines[i].net = nets[i][1]
               /\ result.lines[i].dev = 2 * nets[i][2] - result.medlen
               /\ result.lines[i].plus <=> 2 * nets[i][2] > result.medlen

\* A = 10.00 mm, B = 10.50 mm, C = 9.80 mm: the median is 10.00 mm and the
\* deviations are 0.00, +0.50 and -0.20 mm (all doubled here).
C8_Witness ==
    /\ mpc = "done"
    /\ nets = << <<(<<"A">>), 10000000>>, <<(<<"B">>), 10500000>>,
                 <<(<<"C">>), 9800000>> >>
    /\ result.medlen = 20000000
    /\ result.lines[1].dev = 0 /\ ~result.lines[1].plus
    /\ result.lines[2].dev = 1000000 /\ result.lines[2].plus
    /\ result.lines[3].dev = -400000 /\ ~result.lines[3].plus

\* Labels whose marker is detected and whose numeral is no decimal number.
MalformedLabels == {LM123, LM_DOT, CLK_LM123_X}

\* C9: for a label whose LM marker is detected and whose numeral is not a
\* decimal number get_tolerance raises instead of returning None; a pass that
\* loads a board with such a group ends in that error and reports no group.
C9_MalformedRaises ==
    /\ \A c \in MalformedLabels :
         re_search(c).kind = "match" /\ get_tolerance(c).kind = "ValueError"
    /\ (ClassesOn(loadedBoard) \cap MalformedLabels # {})
         => (pc = "crashed" /\ error = "ValueError" /\ tested = <<>>)

\* A pass has ended in the error on a board that also holds a well-formed group.
C9_Witness ==
    /\ pc = "crashed"
    /\ error = "ValueError"
    /\ LM123 \in ClassesOn(loadedBoard)
    /\ CLK_LM01 \in ClassesOn(loadedBoard)

\* C10: every group of the mapping, of the snapshot and of every call of
\* test_netclass has at least one net, so min, max and median never see an
\* empty list; a marked group with no segment left is absent from the mapping
\* and from the report, and is no error.
C10_NoEmptyGroup ==
    /\ \A g \in DOMAIN lastComputed : Len(lastComputed[g][2]) >= 1
    /\ \A g \in DOMAIN oldprops : Len(oldprops[g][2]) >= 1
    /\ \A g \in DOMAIN tested : tested[g].raised = "" /\ Len(tested[g].nets) >= 1
    /\ error # "ValueError in min()"
    /\ error # "ValueError" =>
         \A c \in ClassNames \ ClassesOn(loadedBoard) :
            c \notin DOMAIN lastComputed /\ c \notin DOMAIN tested

\* A pass has found a group of the snapshot gone, and went on.
C10_Witness ==
    /\ ~once
    /\ pc = "getmtime"
    /\ error = ""
    /\ vanished # {}
    /\ vanished \cap DOMAIN lastComputed = {}

====
